---- MODULE Spec2Model ----
(***************************************************************************)
(* Model of the viewer session of src/lib/ModelViewer.svelte: activation   *)
(* (onMount), the load continuation with its normalization pass, the       *)
(* render-loop and resize callbacks, and deactivation (onDestroy).         *)
(*                                                                         *)
(* Numbers of the scene (coordinates, scale, camera distances) are exact   *)
(* rationals <<numerator, denominator>>, so that 10 / maxDimension and the *)
(* 0.01 / 0.1 / 1.5 literals of the source are computed, not approximated. *)
(***************************************************************************)
EXTENDS Integers, Sequences, FiniteSets, TLC

\* ------------------------------------------------------------ bounds
MaxMeshes == 2
MaxFrames == 1
MaxResizes == 1

\* ------------------------------------------------------------ rationals
Abs(n) == IF n < 0 THEN -n ELSE n

RECURSIVE GCD(_, _)
GCD(a, b) == IF b = 0 THEN a ELSE GCD(b, a % b)

\* the rational n/d in lowest terms with a positive denominator. A zero denominator
\* gives the results of IEEE division: <<1, 0>> and <<-1, 0>> are the infinities,
\* <<0, 0>> is NaN
R(n, d) ==
    IF d = 0 THEN <<(IF n > 0 THEN 1 ELSE IF n < 0 THEN -1 ELSE 0), 0>>
    ELSE LET s == IF d < 0 THEN -1 ELSE 1
             g == GCD(Abs(n), Abs(d))
         IN  <<(s * n) \div g, (s * d) \div g>>

RInt(n) == <<n, 1>>
RAdd(a, b) == R(a[1] * b[2] + b[1] * a[2], a[2] * b[2])
RSub(a, b) == R(a[1] * b[2] - b[1] * a[2], a[2] * b[2])
RMul(a, b) == R(a[1] * b[1], a[2] * b[2])
RDiv(a, b) == R(a[1] * b[2], a[2] * b[1])
RLe(a, b) == a[1] * b[2] <= b[1] * a[2]
RLt(a, b) == a[1] * b[2] < b[1] * a[2]
RMax(a, b) == IF RLe(a, b) THEN b ELSE a
RMin(a, b) == IF RLe(a, b) THEN a ELSE b

\* ------------------------------------------------------------ vectors
Vec(x, y, z) == <<RInt(x), RInt(y), RInt(z)>>
Zero == Vec(0, 0, 0)
VSub(a, b) == [i \in 1..3 |-> RSub(a[i], b[i])]
VAdd(a, b) == [i \in 1..3 |-> RAdd(a[i], b[i])]
VScale(a, k) == [i \in 1..3 |-> RMul(a[i], k)]
VMin(a, b) == [i \in 1..3 |-> RMin(a[i], b[i])]
VMax(a, b) == [i \in 1..3 |-> RMax(a[i], b[i])]
\* Vector3.Center: the midpoint of two vectors
Center(a, b) == VScale(VAdd(a, b), R(1, 2))
\* Math.max(v.x, v.y, v.z)
MaxComponent(v) == RMax(v[1], RMax(v[2], v[3]))

\* ------------------------------------------------------------ state
VARIABLES
    canvasElement,   \* TRUE iff the canvas is bound
    modelUrl,        \* TRUE iff the locator is a non-empty string
    engine,          \* "null" | "created" | "disposed"
    scene,           \* "null" | "created" | "disposed"
    camera,          \* the ArcRotateCamera (created = FALSE while the variable is null)
    lights,          \* number of lights created in the scene
    renderLoop,      \* TRUE while the engine runs the render callback
    handleResize,    \* TRUE iff the handleResize variable holds the callback
    windowListeners, \* the session's listeners registered on the window
    loaded,          \* the asset container's meshes as the loader returned them
    meshes,          \* the asset container's meshes merged into the scene
    transformNodes,  \* the modelPivot nodes created in the scene
    log,             \* console output: set of <<level, message>>
    pc,              \* position of onMount
    branch,          \* normalization branch entered: none | scaled | zero | empty
    destroyed,       \* onDestroy has run
    released,        \* release steps onDestroy ran
    hadAtDestroy,    \* resources that existed when onDestroy started
    raised,          \* an exception left onMount or onDestroy
    frames,          \* scene.render() calls (capped)
    resizes          \* engine.resize() calls (capped)

vars == <<canvasElement, modelUrl, engine, scene, camera, lights, renderLoop,
          handleResize, windowListeners, loaded, meshes, transformNodes, log, pc,
          branch, destroyed, released, hadAtDestroy, raised, frames, resizes>>

\* ------------------------------------------------------------ engine objects
\* the camera variable before `new ArcRotateCamera` (null)
NullCamera ==
    [created |-> FALSE, controlAttached |-> FALSE, target |-> Zero,
     radius |-> RInt(0), lowerRadiusLimit |-> RInt(0), upperRadiusLimit |-> RInt(0),
     minZ |-> RInt(0), maxZ |-> RInt(0), wheelDeltaPercentage |-> RInt(0),
     panningSensibility |-> RInt(0), useFramingBehavior |-> FALSE]

\* new ArcRotateCamera("camera", -PI/2, PI/2.5, 10, Vector3.Zero(), scene): radius 10,
\* the engine's default clip planes (minZ 1, maxZ 10000), then lines 54-59
InitialCamera ==
    [created |-> TRUE, controlAttached |-> TRUE, target |-> Zero,
     radius |-> RInt(10), lowerRadiusLimit |-> R(1, 10), upperRadiusLimit |-> RInt(1000),
     minZ |-> RInt(1), maxZ |-> RInt(10000), wheelDeltaPercentage |-> R(1, 100),
     panningSensibility |-> RInt(0), useFramingBehavior |-> FALSE]

\* a mesh that carries no material (mesh.material is null)
NoMaterial == [name |-> <<"none", 0>>, diffuseColor |-> Zero]
\* a material authored in the source file
AuthoredMaterial == [name |-> <<"authored", 0>>, diffuseColor |-> Vec(1, 0, 0)]
\* new StandardMaterial(`defaultMat_${index}`) with diffuseColor (0.8, 0.8, 0.8)
DefaultMaterial(index) ==
    [name |-> <<"defaultMat", index>>, diffuseColor |-> <<R(8, 10), R(8, 10), R(8, 10)>>]

\* new TransformNode("modelPivot", scene): identity scale, at the origin
NewPivot == [scaling |-> Vec(1, 1, 1), position |-> Zero]

\* ------------------------------------------------------------ inputs
\* bounding boxes of the loaded meshes with geometry: a box at the origin, a mesh
\* whose vertices coincide away from the origin, a box away from the origin
Boxes ==
    {[min |-> Vec(0, 0, 0), max |-> Vec(2, 4, 2)],
     [min |-> Vec(6, 0, 0 - 1), max |-> Vec(6, 0, 0 - 1)],
     [min |-> Vec(0 - 3, 1, 1), max |-> Vec(0 - 2, 2, 8)]}

\* what the source file authored for a mesh: its material and its flags
Appearances ==
    {[material |-> NoMaterial, enabled |-> FALSE, isVisible |-> FALSE],
     [material |-> AuthoredMaterial, enabled |-> TRUE, isVisible |-> FALSE]}

\* meshes a loader can return: with geometry, or without any vertex (bounding box
\* collapsed at the origin)
LoadedMeshes ==
    {[totalVertices |-> 3, material |-> a.material, enabled |-> a.enabled,
      isVisible |-> a.isVisible, min |-> b.min, max |-> b.max, parent |-> "root"] :
        a \in Appearances, b \in Boxes}
    \cup
    {[totalVertices |-> 0, material |-> a.material, enabled |-> a.enabled,
      isVisible |-> a.isVisible, min |-> Zero, max |-> Zero, parent |-> "root"] :
        a \in Appearances}

\* asset containers: up to MaxMeshes meshes
Containers == UNION {[1..n -> LoadedMeshes] : n \in 0..MaxMeshes}

\* distances the engine's zoomOn derives from the bounding box and the viewport
FramingDistances == {RInt(12), RInt(15), RInt(100)}

\* ------------------------------------------------------------ initial state
Init ==
    /\ canvasElement \in BOOLEAN
    /\ modelUrl \in BOOLEAN
    /\ engine = "null"
    /\ scene = "null"
    /\ camera = NullCamera
    /\ lights = 0
    /\ renderLoop = FALSE
    /\ handleResize = FALSE
    /\ windowListeners = {}
    /\ loaded = <<>>
    /\ meshes = <<>>
    /\ transformNodes = <<>>
    /\ log = {}
    /\ pc = "unmounted"
    /\ branch = "none"
    /\ destroyed = FALSE
    /\ released = {}
    /\ hadAtDestroy = {}
    /\ raised = FALSE
    /\ frames = 0
    /\ resizes = 0

ErrorLog == <<"error", "Error loading model:">>
WarnLog == <<"warn", "No renderable meshes found (0 vertices)">>

\* ------------------------------------------------------------ onMount, up to the await
\* throwAt: the constructor that throws inside the try block, or "none"
MountStart(throwAt) ==
    /\ pc = "unmounted"
    /\ ~destroyed
    /\ IF ~canvasElement \/ ~modelUrl
       THEN /\ pc' = "skipped"
            /\ UNCHANGED <<engine, scene, camera, lights, renderLoop, log>>
       ELSE /\ engine' = IF throwAt = "engine" THEN "null" ELSE "created"
            /\ scene' = IF throwAt \in {"engine", "scene"} THEN "null" ELSE "created"
            /\ camera' = IF throwAt \in {"engine", "scene", "camera"}
                         THEN NullCamera ELSE InitialCamera
            /\ lights' = IF throwAt = "none" THEN 2 ELSE 0
            /\ renderLoop' = (throwAt = "none")
            /\ log' = IF throwAt = "none" THEN log ELSE log \cup {ErrorLog}
            /\ pc' = IF throwAt = "none" THEN "loading" ELSE "failedSetup"
    /\ UNCHANGED <<canvasElement, modelUrl, handleResize, windowListeners, loaded, meshes,
                   transformNodes, branch, destroyed, released, hadAtDestroy, raised,
                   frames, resizes>>

\* ------------------------------------------------------------ the load continuation
\* m.getTotalVertices() > 0
Renderable(m) == m.totalVertices > 0

\* variant: the default material replaces the material of every mesh
ForceShowOverride(ms) ==
    [i \in DOMAIN ms |->
        [ms[i] EXCEPT !.enabled = TRUE,
                      !.isVisible = TRUE,
                      !.material = DefaultMaterial(i - 1)]]

\* assetContainer.meshes.forEach: enable, show, default material (index is 0-based)
ForceShow(ms) ==
    [i \in DOMAIN ms |->
        [ms[i] EXCEPT !.enabled = TRUE,
                      !.isVisible = TRUE,
                      !.material = IF @ = NoMaterial /\ scene # "null"
                                   THEN DefaultMaterial(i - 1) ELSE @]]

\* variant: every mesh of the container is parented, not only the renderable ones
SetParentAll(ms) == [i \in DOMAIN ms |-> [ms[i] EXCEPT !.parent = "modelPivot"]]

\* renderMeshes.forEach((m) => m.setParent(modelPivot, true, true)): the pivot is the
\* identity when the meshes are attached, so their boxes are unchanged in its space
SetParent(ms) ==
    [i \in DOMAIN ms |->
        IF Renderable(ms[i]) THEN [ms[i] EXCEPT !.parent = "modelPivot"] ELSE ms[i]]

\* world-space bounding box of a mesh: the pivot's scale and translation apply to
\* its children
WorldBox(m, pivot) ==
    IF m.parent = "modelPivot"
    THEN [min |-> [i \in 1..3 |-> RAdd(RMul(m.min[i], pivot.scaling[i]), pivot.position[i])],
          max |-> [i \in 1..3 |-> RAdd(RMul(m.max[i], pivot.scaling[i]), pivot.position[i])]]
    ELSE [min |-> m.min, max |-> m.max]

\* union of the world boxes of the meshes at the indices idx (non-empty)
RECURSIVE UnionBox(_, _, _)
UnionBox(ms, pivot, idx) ==
    LET i == CHOOSE j \in idx : \A k \in idx : j <= k
        b == WorldBox(ms[i], pivot)
    IN  IF idx = {i} THEN b
        ELSE LET rest == UnionBox(ms, pivot, idx \ {i})
             IN  [min |-> VMin(b.min, rest.min), max |-> VMax(b.max, rest.max)]

\* modelPivot.getHierarchyBoundingVectors(true, (m) => m.getTotalVertices() > 0)
HierarchyBoundingVectors(ms, pivot) ==
    UnionBox(ms, pivot, {i \in DOMAIN ms : ms[i].parent = "modelPivot" /\ Renderable(ms[i])})

\* Math.max(size.x, size.y, size.z) with size = bounds.max.subtract(bounds.min)
MaxDimension(bounds) == MaxComponent(VSub(bounds.max, bounds.min))

\* variant: maxDimension >= 0
ShouldScaleNonNegative(maxDimension) == RLe(RInt(0), maxDimension)

\* if (maxDimension > 0)
ShouldScale(maxDimension) == RLt(RInt(0), maxDimension)

\* variant: maxDimension / desiredSize
ScaleFactorInverted(maxDimension) == RDiv(maxDimension, RInt(10))

\* scale = desiredSize / maxDimension
ScaleFactor(maxDimension) == RDiv(RInt(10), maxDimension)

\* variant: position = center.scale(-1), the center before scaling
ScaledPivotUnscaledCenter(preBounds, scale) ==
    [scaling |-> <<scale, scale, scale>>,
     position |-> VScale(Center(preBounds.min, preBounds.max), RInt(-1))]

\* modelPivot.scaling = (scale, scale, scale); modelPivot.position = center.scale(-scale)
ScaledPivot(preBounds, scale) ==
    [scaling |-> <<scale, scale, scale>>,
     position |-> VScale(Center(preBounds.min, preBounds.max), RSub(RInt(0), scale))]

\* radius = Math.max(postMaxDimension * 1.5, 3)
OrbitRadius(postMaxDimension) == RMax(RMul(postMaxDimension, R(3, 2)), RInt(3))

\* variant: radius + 5 alone
UpperLimitAdditive(radius) == RAdd(radius, RInt(5))

\* upperLimit = Math.max(radius * 4, radius + 5)
UpperLimit(radius) == RMax(RMul(radius, RInt(4)), RAdd(radius, RInt(5)))

\* lines 118-128: target, radius, distance limits and clip planes of the scaled branch
FrameCamera(cam, radius) ==
    [cam EXCEPT !.useFramingBehavior = FALSE,
                !.target = Zero,
                !.radius = radius,
                !.lowerRadiusLimit = R(1, 100),
                !.upperRadiusLimit = UpperLimit(radius),
                !.minZ = R(1, 100),
                !.maxZ = RMul(UpperLimit(radius), RInt(5))]

\* camera.zoomOn(renderMeshes, doNotUpdateMaxZ): the engine frames the meshes: the
\* distance it derives is clamped to the radius limits and becomes the radius, the
\* target becomes the center of the meshes' world bounds
ZoomOn(cam, ms, pivot, dist, doNotUpdateMaxZ) ==
    LET b == UnionBox(ms, pivot, {i \in DOMAIN ms : Renderable(ms[i])})
        distance == RMax(RMin(dist, cam.upperRadiusLimit), cam.lowerRadiusLimit)
    IN  [cam EXCEPT !.radius = distance,
                    !.target = Center(b.min, b.max),
                    !.maxZ = IF doNotUpdateMaxZ THEN @ ELSE RMul(distance, RInt(2))]

\* lines 130-131: zoomOn, then the far clip plane is re-applied
ZoomAndReapply(cam, ms, pivot, dist) ==
    LET z == ZoomOn(cam, ms, pivot, dist, TRUE)
    IN  [z EXCEPT !.maxZ = RMul(z.upperRadiusLimit, RInt(5))]

\* lines 133-134 and 138-139: the fallback framing
FallbackCamera(cam) == [cam EXCEPT !.target = Zero, !.radius = RInt(10)]

\* lines 142-147
Subscribe ==
    /\ handleResize' = TRUE
    /\ windowListeners' = windowListeners \cup {"resize"}

\* the catch block of onMount
Caught(at) ==
    /\ log' = log \cup {ErrorLog}
    /\ pc' = at
    /\ UNCHANGED <<handleResize, windowListeners>>

\* lines 103-135: the pass on a non-empty renderable set, from the bounds on.
\* throwAt: the engine call that throws ("zoomOn") or "none"
ScaleAndFrame(parented, throwAt) ==
    \E preBounds \in {HierarchyBoundingVectors(parented, NewPivot)} :
    \E maxDimension \in {MaxDimension(preBounds)} :
        IF ~ShouldScale(maxDimension)
        THEN /\ transformNodes' = Append(transformNodes, NewPivot)
             /\ camera' = FallbackCamera(camera)
             /\ branch' = "zero"
             /\ pc' = "done"
             /\ log' = log
             /\ Subscribe
        ELSE \E modelPivot \in {ScaledPivot(preBounds, ScaleFactor(maxDimension))} :
             \E postBounds \in {HierarchyBoundingVectors(parented, modelPivot)} :
             \E framed \in {FrameCamera(camera, OrbitRadius(MaxDimension(postBounds)))} :
                /\ transformNodes' = Append(transformNodes, modelPivot)
                /\ branch' = "scaled"
                /\ IF throwAt = "zoomOn"
                   THEN /\ camera' = framed
                        /\ Caught("failedPass")
                   ELSE /\ \E dist \in FramingDistances :
                            camera' = ZoomAndReapply(framed, parented, modelPivot, dist)
                        /\ pc' = "done"
                        /\ log' = log
                        /\ Subscribe

\* lines 77-147: merge, force-show, normalization pass, resize subscription
MergeAndNormalize(container) ==
    \E shown \in {ForceShow(container)} :
        IF \A i \in DOMAIN container : ~Renderable(container[i])
        THEN /\ meshes' = shown
             /\ transformNodes' = transformNodes
             /\ camera' = FallbackCamera(camera)
             /\ branch' = "empty"
             /\ log' = log \cup {WarnLog}
             /\ pc' = "done"
             /\ Subscribe
        ELSE \E parented \in {SetParent(shown)} :
             \E throwAt \in {"none", "bounds", "zoomOn"} :
                /\ meshes' = parented
                /\ IF throwAt = "bounds"
                   THEN /\ transformNodes' = Append(transformNodes, NewPivot)
                        /\ UNCHANGED <<camera, branch>>
                        /\ Caught("failedPass")
                   ELSE ScaleAndFrame(parented, throwAt)

\* onMount after the await (lines 73-150). outcome: how LoadAssetContainerAsync
\* settles; container: the meshes it returns
LoadContinuation(outcome, container) ==
    /\ pc = "loading"
    /\ IF outcome # "loaded"
       THEN /\ Caught("failedLoad")
            /\ UNCHANGED <<loaded, meshes, transformNodes, camera, branch>>
       ELSE /\ loaded' = container
            /\ MergeAndNormalize(container)
    /\ UNCHANGED <<canvasElement, modelUrl, engine, scene, lights, renderLoop, destroyed,
                   released, hadAtDestroy, raised, frames, resizes>>

\* ------------------------------------------------------------ callbacks
\* the render-loop callback: if (scene) scene.render()
RenderFrame ==
    /\ renderLoop
    /\ frames < MaxFrames
    /\ frames' = IF scene # "null" THEN frames + 1 ELSE frames
    /\ UNCHANGED <<canvasElement, modelUrl, engine, scene, camera, lights, renderLoop,
                   handleResize, windowListeners, loaded, meshes, transformNodes, log, pc,
                   branch, destroyed, released, hadAtDestroy, raised, resizes>>

\* a window resize event delivered to handleResize: if (engine) engine.resize()
WindowResize ==
    /\ "resize" \in windowListeners
    /\ resizes < MaxResizes
    /\ resizes' = IF engine # "null" THEN resizes + 1 ELSE resizes
    /\ UNCHANGED <<canvasElement, modelUrl, engine, scene, camera, lights, renderLoop,
                   handleResize, windowListeners, loaded, meshes, transformNodes, log, pc,
                   branch, destroyed, released, hadAtDestroy, raised, frames>>

\* ------------------------------------------------------------ onDestroy
\* the conditions of the four if statements
ResizeGuard == handleResize
\* variant: camera.detachControl() called without the null test
CameraGuardMissing == TRUE
CameraGuard == camera.created
EngineGuard == engine # "null"
SceneGuard == scene # "null"

\* the resources that exist
Held ==
    (IF handleResize THEN {"resize"} ELSE {}) \cup
    (IF camera.created THEN {"camera"} ELSE {}) \cup
    (IF engine # "null" THEN {"engine"} ELSE {}) \cup
    (IF scene # "null" THEN {"scene"} ELSE {})

\* the release steps in source order, each with its guard
ReleaseSteps ==
    << <<"resize", ResizeGuard>>, <<"camera", CameraGuard>>,
       <<"engine", EngineGuard>>, <<"scene", SceneGuard>> >>

\* runs the steps from index i on: a step whose guard passes calls a method of its
\* resource, which throws (and ends onDestroy) when the resource is null
RECURSIVE RunRelease(_, _)
RunRelease(i, done) ==
    IF i > Len(ReleaseSteps) THEN [ran |-> done, threw |-> FALSE]
    ELSE LET step == ReleaseSteps[i]
         IN  IF ~step[2] THEN RunRelease(i + 1, done)
             ELSE IF step[1] \notin Held THEN [ran |-> done, threw |-> TRUE]
             ELSE RunRelease(i + 1, done \cup {step[1]})

Deactivate ==
    /\ ~destroyed
    /\ LET r == RunRelease(1, {})
       IN  /\ released' = r.ran
           /\ raised' = (raised \/ r.threw)
           /\ windowListeners' = IF "resize" \in r.ran
                                 THEN windowListeners \ {"resize"} ELSE windowListeners
           /\ camera' = IF "camera" \in r.ran
                        THEN [camera EXCEPT !.controlAttached = FALSE] ELSE camera
           /\ engine' = IF "engine" \in r.ran THEN "disposed" ELSE engine
           /\ renderLoop' = IF "engine" \in r.ran THEN FALSE ELSE renderLoop
           \* engine.dispose() disposes the scenes of the engine as well
           /\ scene' = IF scene # "null" /\ ({"engine", "scene"} \cap r.ran # {})
                       THEN "disposed" ELSE scene
           /\ lights' = IF scene # "null" /\ ({"engine", "scene"} \cap r.ran # {})
                        THEN 0 ELSE lights
    /\ hadAtDestroy' = Held
    /\ destroyed' = TRUE
    /\ UNCHANGED <<canvasElement, modelUrl, handleResize, loaded, meshes, transformNodes,
                   log, pc, branch, frames, resizes>>

\* ------------------------------------------------------------ specification
Next ==
    \/ \E throwAt \in {"none", "engine", "scene", "camera", "light"} : MountStart(throwAt)
    \/ \E outcome \in {"rejected", "noContainer"} : LoadContinuation(outcome, <<>>)
    \/ \E container \in Containers : LoadContinuation("loaded", container)
    \/ RenderFrame
    \/ WindowResize
    \/ Deactivate

Spec == Init /\ [][Next]_vars

\* ------------------------------------------------------------ properties
\* the pivot of the session and the bounds of its hierarchy, read from the state
Pivot == transformNodes[1]
PreScaleBounds == HierarchyBoundingVectors(meshes, NewPivot)
PostScaleBounds == HierarchyBoundingVectors(meshes, Pivot)
HasRenderable == \E i \in DOMAIN meshes : meshes[i].totalVertices > 0
LoadMerged == pc \in {"done", "failedPass"}

\* C1: once the camera exists (initial setup, every normalization branch, load
\* failure), lowerRadiusLimit <= upperRadiusLimit and minZ <= maxZ; in the scaled
\* branch the limits are [0.01, max(radius*4, radius+5)] and the clip planes
\* [0.01, upperLimit*5], with radius = max(post-scale max dimension * 1.5, 3)
C1_CameraLimits ==
    camera.created =>
        /\ RLe(camera.lowerRadiusLimit, camera.upperRadiusLimit)
        /\ RLe(camera.minZ, camera.maxZ)
        /\ branch = "scaled" =>
            LET radius == RMax(RMul(MaxDimension(PostScaleBounds), R(3, 2)), RInt(3))
                upper == RMax(RMul(radius, RInt(4)), RAdd(radius, RInt(5)))
            IN  /\ camera.lowerRadiusLimit = R(1, 100)
                /\ camera.upperRadiusLimit = upper
                /\ camera.minZ = R(1, 100)
                /\ camera.maxZ = RMul(upper, RInt(5))
                /\ upper = RInt(60)

C1_Witness ==
    /\ pc = "done"
    /\ branch = "scaled"
    /\ camera.upperRadiusLimit = RInt(60)
    /\ camera.maxZ = RInt(300)

\* C2: when the renderable set is non-empty with a pre-scale max dimension > 0, the
\* pivot's scale is uniform and equals 10 / (max dimension), and the post-scale max
\* dimension of the pivot's hierarchy is 10
C2_ScaleToTen ==
    (LoadMerged /\ branch = "scaled") =>
        /\ Len(transformNodes) = 1
        /\ RLt(RInt(0), MaxDimension(PreScaleBounds))
        /\ Pivot.scaling[1] = RDiv(RInt(10), MaxDimension(PreScaleBounds))
        /\ Pivot.scaling[2] = Pivot.scaling[1]
        /\ Pivot.scaling[3] = Pivot.scaling[1]
        /\ MaxDimension(PostScaleBounds) = RInt(10)

\* the mesh spanning (0,0,0)-(2,4,2) loaded alone: scale 10/4, position -(1,2,1)*2.5
C2_Witness ==
    /\ pc = "done"
    /\ Len(meshes) = 1
    /\ meshes[1].max = Vec(2, 4, 2)
    /\ Pivot.scaling = <<R(5, 2), R(5, 2), R(5, 2)>>
    /\ Pivot.position = <<R(-5, 2), RInt(-5), R(-5, 2)>>

\* C3 as stated: after normalization of any renderable set, also one whose pre-scale
\* max dimension is 0, the bounding box of the pivot's hierarchy is centered at the
\* origin
C3_Original ==
    (pc = "done" /\ HasRenderable) =>
        Center(PostScaleBounds.min, PostScaleBounds.max) = Zero

\* C3 amended: when the pre-scale max dimension is > 0 the bounding box of the pivot's
\* hierarchy is centered at the origin after normalization; when it is 0 the pivot
\* keeps its default position and scale, so the box stays where the points are
C3_CenteredWhenScaled ==
    /\ (LoadMerged /\ branch = "scaled") =>
            Center(PostScaleBounds.min, PostScaleBounds.max) = Zero
    /\ (pc = "done" /\ HasRenderable /\ ~RLt(RInt(0), MaxDimension(PreScaleBounds))) =>
            /\ Pivot = NewPivot
            /\ PostScaleBounds = PreScaleBounds

\* two meshes whose union is off-center: the pivot is moved by -(center * scale)
C3_Witness ==
    /\ pc = "done"
    /\ branch = "scaled"
    /\ Len(meshes) = 2
    /\ Center(PreScaleBounds.min, PreScaleBounds.max) = <<RInt(3), RInt(2), R(1, 2)>>
    /\ Pivot.position = <<RInt(-5), R(-10, 3), R(-5, 6)>>

\* C4 as stated: when activation completes in the scaled branch, the camera targets
\* the origin, its radius is max(post-scale max dimension * 1.5, 3) = 15 also after
\* zoomOn, and maxZ is 5 times the upper radius limit
C4_Original ==
    (pc = "done" /\ branch = "scaled") =>
        /\ camera.target = Zero
        /\ camera.radius = RMax(RMul(MaxDimension(PostScaleBounds), R(3, 2)), RInt(3))
        /\ camera.radius = RInt(15)
        /\ camera.maxZ = RMul(camera.upperRadiusLimit, RInt(5))

\* C5: when the load succeeds and no scaling applies (no renderable mesh, or a
\* pre-scale max dimension of 0), the camera ends at radius 10 targeting the origin
\* and every pivot keeps its default scale (nothing is divided by the max dimension)
C5_Fallback ==
    (pc = "done" /\ (~HasRenderable \/ ~RLt(RInt(0), MaxDimension(PreScaleBounds)))) =>
        /\ camera.radius = RInt(10)
        /\ camera.target = Zero
        /\ branch \in {"empty", "zero"}
        /\ \A i \in DOMAIN transformNodes : transformNodes[i].scaling = Vec(1, 1, 1)
        /\ ~HasRenderable => transformNodes = <<>>

\* coincident points away from the origin: a pivot exists and is left unscaled
C5_Witness ==
    /\ pc = "done"
    /\ branch = "zero"
    /\ transformNodes = <<NewPivot>>
    /\ PreScaleBounds.min = Vec(6, 0, 0 - 1)
    /\ camera.radius = RInt(10)

\* C6: a session has at most one pivot; a pivot exists only if the load completed
\* with a mesh of positive vertex count; with no such mesh no pivot is created and a
\* warning is logged; every mesh parented to the pivot has a positive vertex count
C6_OnePivot ==
    /\ Len(transformNodes) <= 1
    /\ transformNodes # <<>> =>
            /\ LoadMerged
            /\ \E i \in DOMAIN loaded : loaded[i].totalVertices > 0
    /\ (pc = "done" /\ \A i \in DOMAIN loaded : loaded[i].totalVertices = 0) =>
            /\ transformNodes = <<>>
            /\ WarnLog \in log
    /\ \A i \in DOMAIN meshes :
            meshes[i].parent = "modelPivot" => meshes[i].totalVertices > 0

\* a container mixing a mesh with vertices and one without
C6_Witness ==
    /\ Len(transformNodes) = 1
    /\ \E i, j \in DOMAIN meshes :
            /\ meshes[i].parent = "modelPivot"
            /\ meshes[j].totalVertices = 0
            /\ meshes[j].parent = "root"

\* C7: onDestroy never raises wherever onMount stopped, and it runs exactly the
\* release steps whose resource exists, the others being skipped
C7_SafeRelease ==
    destroyed =>
        /\ ~raised
        /\ released = hadAtDestroy
        /\ "resize" \in released => "resize" \notin windowListeners
        /\ "camera" \in released => ~camera.controlAttached
        /\ "engine" \in released => engine = "disposed" /\ ~renderLoop
        /\ "scene" \in released => scene = "disposed"

\* activation failed after the engine and the scene were created, before the camera
C7_Witness ==
    /\ destroyed
    /\ pc = "failedSetup"
    /\ hadAtDestroy = {"engine", "scene"}
    /\ released = {"engine", "scene"}

\* C8 as stated: a failure of the load or of the pass is caught and logged, and the
\* session stays alive: nothing is disposed, the render loop runs, and the session
\* answers window resize events until deactivation
C8_Original ==
    (pc \in {"failedLoad", "failedPass"} /\ ~destroyed) =>
        /\ ~raised
        /\ ErrorLog \in log
        /\ engine = "created"
        /\ scene = "created"
        /\ camera.created
        /\ lights = 2
        /\ renderLoop
        /\ "resize" \in windowListeners

\* C9: after a successful load and merge every mesh of the container, also one with
\* no vertex, is enabled, visible and has a material: the default gray one if it
\* carried none, its own otherwise
C9_AllShown ==
    LoadMerged =>
        /\ Len(meshes) = Len(loaded)
        /\ \A i \in DOMAIN meshes :
            /\ meshes[i].enabled
            /\ meshes[i].isVisible
            /\ meshes[i].material # NoMaterial
            /\ loaded[i].material # NoMaterial => meshes[i].material = loaded[i].material
            /\ loaded[i].material = NoMaterial =>
                    /\ meshes[i].material.name = <<"defaultMat", i - 1>>
                    /\ meshes[i].material.diffuseColor = <<R(4, 5), R(4, 5), R(4, 5)>>

\* a hidden mesh without vertices or material, beside a mesh with its own material
C9_Witness ==
    /\ pc = "done"
    /\ \E i, j \in DOMAIN loaded :
            /\ loaded[i].totalVertices = 0
            /\ loaded[i].material = NoMaterial
            /\ ~loaded[i].enabled
            /\ meshes[i].material = DefaultMaterial(i - 1)
            /\ loaded[j].material = AuthoredMaterial
            /\ meshes[j].material = AuthoredMaterial

\* C10 as stated: once onDestroy has run and the load continuation has finished, in
\* either order, no resize listener of the session is registered, the render loop
\* is stopped, camera control is detached, engine and scene are disposed, and
\* nothing was raised
C10_Original ==
    (destroyed /\ pc \in {"done", "failedLoad", "failedPass"}) =>
        /\ windowListeners = {}
        /\ ~renderLoop
        /\ ~camera.controlAttached
        /\ engine = "disposed"
        /\ scene = "disposed"
        /\ ~raised

====
